---- MODULE Spec2Model ----
(***************************************************************************)
(* Model of the MQTT source of drasi-core                                  *)
(* (components/sources/mqtt/src: lib.rs, connection.rs, model.rs,          *)
(* config.rs).  The adapter (MQTTSource) is built by MQTTSourceBuilder,    *)
(* started and stopped by the hosting framework; every start() call        *)
(* constructs an MQTTConnectionWrapper, subscribes and runs the receive    *)
(* loop of MQTTConnectionWrapper::start.                                   *)
(***************************************************************************)
EXTENDS Integers, Sequences, FiniteSets, TLC

(***************************************************************************)
(* Bounds of the model.                                                    *)
(***************************************************************************)
MaxStarts == 1          \* start() calls the framework makes
MaxStops  == 1          \* stop() calls the framework makes
MaxEvents == 2          \* broker events delivered over all sessions
MaxLen    == 2          \* length of the host and topic strings

(***************************************************************************)
(* Strings of the configuration are sequences of characters, so that       *)
(* str::trim and str::is_empty are computed and not assumed.               *)
(***************************************************************************)
Chars == {" ", "a"}

IsWhitespace(c) == c = " "

RECURSIVE TrimStart(_)
TrimStart(s) ==
    IF s = <<>> THEN <<>>
    ELSE IF IsWhitespace(Head(s)) THEN TrimStart(Tail(s)) ELSE s

RECURSIVE TrimEnd(_)
TrimEnd(s) ==
    IF s = <<>> THEN <<>>
    ELSE IF IsWhitespace(s[Len(s)]) THEN TrimEnd(SubSeq(s, 1, Len(s) - 1)) ELSE s

Trim(s) == TrimEnd(TrimStart(s))

IsEmpty(s) == Len(s) = 0

StrsOfLen(n) == [1..n -> Chars]

Strs == UNION {StrsOfLen(n) : n \in 0..MaxLen}

(***************************************************************************)
(* Option<T>                                                               *)
(***************************************************************************)
None == [some |-> FALSE]

Some(x) == [some |-> TRUE, v |-> x]

UnwrapOr(o, d) == IF o.some THEN o.v ELSE d

(***************************************************************************)
(* config.rs                                                               *)
(***************************************************************************)
default_qos == "ExactlyOnce"

default_channel_capacity == 100

default_timeout_ms == 5000

\* validate without the trim() of host and topic
validate_untrimmed(c) ==
    IF IsEmpty(c.host) THEN "host cannot be empty"
    ELSE IF c.port = 0 THEN "port cannot be 0"
    ELSE IF IsEmpty(c.topic) THEN "topic cannot be empty"
    ELSE IF c.timeout_ms = 0 THEN "timeout_ms cannot be 0"
    ELSE "Ok"

\* MQTTSourceConfig::validate: the first violated constraint, or "Ok".
validate(c) ==
    IF IsEmpty(Trim(c.host)) THEN "host cannot be empty"
    ELSE IF c.port = 0 THEN "port cannot be 0"
    ELSE IF IsEmpty(Trim(c.topic)) THEN "topic cannot be empty"
    ELSE IF c.timeout_ms = 0 THEN "timeout_ms cannot be 0"
    ELSE "Ok"

(***************************************************************************)
(* Result<T, E>                                                            *)
(***************************************************************************)
Ok(x) == [ok |-> TRUE, v |-> x]

Err(e) == [ok |-> FALSE, err |-> e]

(***************************************************************************)
(* serde_json::Value.  An object is the sequence of its members; a number  *)
(* keeps serde_json's representation (PosInt, NegInt, Float) and "Raw" is  *)
(* a number for which Number::as_i64 and Number::as_f64 both answer None.  *)
(* A Float's n is the value in tenths.                                     *)
(***************************************************************************)
JNull == [t |-> "null"]

JBool(b) == [t |-> "bool", b |-> b]

JNum(repr, n) == [t |-> "num", repr |-> repr, n |-> n]

JStr(s) == [t |-> "str", s |-> s]

JArr(a) == [t |-> "arr", a |-> a]

JObj(m) == [t |-> "obj", m |-> m]

Member(k, v) == [k |-> k, v |-> v]

HasKey(m, k) == \E i \in 1..Len(m) : m[i].k = k

Get(m, k) == m[CHOOSE i \in 1..Len(m) : m[i].k = k].v

\* the width of i64, scaled to the integers of the model
I64_MAX == 127

as_i64(j) ==
    IF j.repr = "PosInt" /\ j.n <= I64_MAX THEN Some(j.n)
    ELSE IF j.repr = "NegInt" THEN Some(j.n)
    ELSE None

\* the f64 nearest to the number, in tenths
as_f64(j) ==
    IF j.repr = "Float" THEN Some(j.n)
    ELSE IF j.repr \in {"PosInt", "NegInt"} THEN Some(10 * j.n)
    ELSE None

(***************************************************************************)
(* model.rs: the derived Deserialize of MQTTSourceChange and MQTTElement   *)
(* (internally tagged enums), applied to a parsed JSON value.              *)
(***************************************************************************)
IsStr(j) == j.t = "str"

IsStrArr(j) == j.t = "arr" /\ \A i \in 1..Len(j.a) : IsStr(j.a[i])

StrArr(j) == [i \in 1..Len(j.a) |-> j.a[i].s]

IsU64(j) == j.t = "num" /\ j.repr = "PosInt"

\* a required String field
HasStr(m, k) == HasKey(m, k) /\ IsStr(Get(m, k))

\* an Option<u64> field: absent or null is None
OptU64Ok(m, k) == HasKey(m, k) => (Get(m, k).t = "null" \/ IsU64(Get(m, k)))

OptU64(m, k) ==
    IF HasKey(m, k) /\ Get(m, k).t # "null" THEN Some(Get(m, k).n) ELSE None

\* an Option<Vec<String>> field
OptStrArrOk(m, k) == HasKey(m, k) => (Get(m, k).t = "null" \/ IsStrArr(Get(m, k)))

\* an Option<Vec<String>> read with an empty array taken for None
OptStrArr_EmptyIsNone(m, k) ==
    IF HasKey(m, k) /\ Get(m, k).t # "null" /\ Get(m, k).a # <<>>
    THEN Some(StrArr(Get(m, k))) ELSE None

OptStrArr(m, k) ==
    IF HasKey(m, k) /\ Get(m, k).t # "null" THEN Some(StrArr(Get(m, k))) ELSE None

\* a #[serde(default)] serde_json::Map field
DefaultMapOk(m, k) == HasKey(m, k) => Get(m, k).t = "obj"

DefaultMap(m, k) == IF HasKey(m, k) THEN Get(m, k).m ELSE <<>>

DeserializeElement(j) ==
    IF j.t # "obj" THEN Err("invalid type")
    ELSE IF ~HasStr(j.m, "type") THEN Err("missing tag type")
    ELSE IF Get(j.m, "type").s \notin {"node", "relation"} THEN Err("unknown variant")
    ELSE IF ~HasStr(j.m, "id") THEN Err("missing field id")
    ELSE IF ~(HasKey(j.m, "labels") /\ IsStrArr(Get(j.m, "labels")))
         THEN Err("missing field labels")
    ELSE IF ~DefaultMapOk(j.m, "properties") THEN Err("invalid type")
    ELSE IF Get(j.m, "type").s = "node"
         THEN Ok([type |-> "node",
                  id |-> Get(j.m, "id").s,
                  labels |-> StrArr(Get(j.m, "labels")),
                  properties |-> DefaultMap(j.m, "properties")])
    ELSE IF ~HasStr(j.m, "from") THEN Err("missing field from")
    ELSE IF ~HasStr(j.m, "to") THEN Err("missing field to")
    ELSE Ok([type |-> "relation",
             id |-> Get(j.m, "id").s,
             labels |-> StrArr(Get(j.m, "labels")),
             from |-> Get(j.m, "from").s,
             to |-> Get(j.m, "to").s,
             properties |-> DefaultMap(j.m, "properties")])

DeserializeChange(j) ==
    IF j.t # "obj" THEN Err("invalid type")
    ELSE IF ~HasStr(j.m, "operation") THEN Err("missing tag operation")
    ELSE IF Get(j.m, "operation").s \notin {"insert", "update", "delete"}
         THEN Err("unknown variant")
    ELSE IF ~OptU64Ok(j.m, "timestamp") THEN Err("invalid type")
    ELSE IF Get(j.m, "operation").s = "delete"
         THEN IF ~HasStr(j.m, "id") THEN Err("missing field id")
              ELSE IF ~OptStrArrOk(j.m, "labels") THEN Err("invalid type")
              ELSE Ok([operation |-> "delete",
                       id |-> Get(j.m, "id").s,
                       labels |-> OptStrArr(j.m, "labels"),
                       timestamp |-> OptU64(j.m, "timestamp")])
    ELSE IF ~HasKey(j.m, "element") THEN Err("missing field element")
    ELSE IF ~DeserializeElement(Get(j.m, "element")).ok
         THEN DeserializeElement(Get(j.m, "element"))
    ELSE Ok([operation |-> Get(j.m, "operation").s,
             element |-> DeserializeElement(Get(j.m, "element")).v,
             timestamp |-> OptU64(j.m, "timestamp")])

(***************************************************************************)
(* The text of a payload: either it parses as JSON, to the value json, or  *)
(* it does not (truncated or otherwise malformed text).                    *)
(***************************************************************************)
Text(j) == [parses |-> TRUE, json |-> j]

Malformed == [parses |-> FALSE]

\* model.rs: serde_json::from_str::<MQTTSourceChange>
map_json_to_mqtt_source_change(json_str) ==
    IF ~json_str.parses THEN Err("syntax error") ELSE DeserializeChange(json_str.json)

(***************************************************************************)
(* The bytes of a publish.  Utf8(text) are the bytes that encode text in   *)
(* UTF-8.  NotUtf8(text) are bytes with sequences that are not valid       *)
(* UTF-8: text is then what is left of them when each such sequence is     *)
(* replaced by U+FFFD, written "?" in the strings below.                   *)
(***************************************************************************)
Utf8(text) == [utf8 |-> TRUE, text |-> text]

NotUtf8(text) == [utf8 |-> FALSE, text |-> text]

\* connection.rs: String::from_utf8_lossy(&publish.payload): never an error,
\* the invalid sequences are replaced and the rest of the text is kept
from_utf8_lossy(payload) == payload.text

(***************************************************************************)
(* model.rs: conversion to drasi_core::models (ElementValue, Element,      *)
(* SourceChange).  An ElementPropertyMap is the sequence of its entries.   *)
(***************************************************************************)
MapInsert(map, k, v) ==
    IF HasKey(map, k)
    THEN [i \in 1..Len(map) |-> IF map[i].k = k THEN Member(k, v) ELSE map[i]]
    ELSE Append(map, Member(k, v))

RECURSIVE convert_json_to_element_value(_)
RECURSIVE ConvertItems(_, _)
RECURSIVE ConvertMembers(_, _)

\* for item in arr { vec.push(convert(item)?) }
ConvertItems(arr, vec) ==
    IF arr = <<>> THEN Ok(vec)
    ELSE LET r == convert_json_to_element_value(Head(arr))
         IN  IF r.ok THEN ConvertItems(Tail(arr), Append(vec, r.v)) ELSE r

\* for (k, v) in obj { map.insert(k, convert(v)?) }
ConvertMembers(obj, map) ==
    IF obj = <<>> THEN Ok(map)
    ELSE LET r == convert_json_to_element_value(Head(obj).v)
         IN  IF r.ok THEN ConvertMembers(Tail(obj), MapInsert(map, Head(obj).k, r.v))
             ELSE r

\* a conversion that asks as_f64 before as_i64: every number is a Float
convert_json_to_element_value_f64_first(value) ==
    CASE value.t = "null" -> Ok([t |-> "Null"])
      [] value.t = "bool" -> Ok([t |-> "Bool", b |-> value.b])
      [] value.t = "num"  ->
            IF as_f64(value).some THEN Ok([t |-> "Float", n |-> as_f64(value).v])
            ELSE IF as_i64(value).some THEN Ok([t |-> "Integer", n |-> as_i64(value).v])
            ELSE Err("Unsupported number type")
      [] value.t = "str"  -> Ok([t |-> "String", s |-> value.s])
      [] value.t = "arr"  ->
            LET r == ConvertItems(value.a, <<>>)
            IN  IF r.ok THEN Ok([t |-> "List", a |-> r.v]) ELSE r
      [] value.t = "obj"  ->
            LET r == ConvertMembers(value.m, <<>>)
            IN  IF r.ok THEN Ok([t |-> "Object", m |-> r.v]) ELSE r

convert_json_to_element_value(value) ==
    CASE value.t = "null" -> Ok([t |-> "Null"])
      [] value.t = "bool" -> Ok([t |-> "Bool", b |-> value.b])
      [] value.t = "num"  ->
            IF as_i64(value).some THEN Ok([t |-> "Integer", n |-> as_i64(value).v])
            ELSE IF as_f64(value).some THEN Ok([t |-> "Float", n |-> as_f64(value).v])
            ELSE Err("Unsupported number type")
      [] value.t = "str"  -> Ok([t |-> "String", s |-> value.s])
      [] value.t = "arr"  ->
            LET r == ConvertItems(value.a, <<>>)
            IN  IF r.ok THEN Ok([t |-> "List", a |-> r.v]) ELSE r
      [] value.t = "obj"  ->
            LET r == ConvertMembers(value.m, <<>>)
            IN  IF r.ok THEN Ok([t |-> "Object", m |-> r.v]) ELSE r

ElementReference(source_id, element_id) ==
    [source_id |-> source_id, element_id |-> element_id]

\* a conversion that takes from for the in_node and to for the out_node
create_element_from_mqtt_swapped(mqtt_element, source_id, timestamp) ==
    LET metadata == [reference |-> ElementReference(source_id, mqtt_element.id),
                     labels |-> mqtt_element.labels,
                     effective_from |-> timestamp]
        prop_map == ConvertMembers(mqtt_element.properties, <<>>)
    IN  IF ~prop_map.ok THEN prop_map
        ELSE IF mqtt_element.type = "node"
        THEN Ok([kind |-> "Node", metadata |-> metadata, properties |-> prop_map.v])
        ELSE Ok([kind |-> "Relation", metadata |-> metadata, properties |-> prop_map.v,
                 in_node |-> ElementReference(source_id, mqtt_element.from),
                 out_node |-> ElementReference(source_id, mqtt_element.to)])

create_element_from_mqtt(mqtt_element, source_id, timestamp) ==
    LET metadata == [reference |-> ElementReference(source_id, mqtt_element.id),
                     labels |-> mqtt_element.labels,
                     effective_from |-> timestamp]
        prop_map == ConvertMembers(mqtt_element.properties, <<>>)
    IN  IF ~prop_map.ok THEN prop_map
        ELSE IF mqtt_element.type = "node"
        THEN Ok([kind |-> "Node", metadata |-> metadata, properties |-> prop_map.v])
        ELSE Ok([kind |-> "Relation", metadata |-> metadata, properties |-> prop_map.v,
                 in_node |-> ElementReference(source_id, mqtt_element.to),
                 out_node |-> ElementReference(source_id, mqtt_element.from)])

\* a conversion that refuses a Delete without labels
convert_mqtt_to_source_change_labels_required(mqtt_change, source_id, now) ==
    IF mqtt_change.operation \in {"insert", "update"}
    THEN LET element == create_element_from_mqtt(mqtt_change.element, source_id,
                                                 UnwrapOr(mqtt_change.timestamp, now))
         IN  IF ~element.ok THEN element
             ELSE Ok([change |-> IF mqtt_change.operation = "insert"
                                 THEN "Insert" ELSE "Update",
                      element |-> element.v])
    ELSE IF ~mqtt_change.labels.some THEN Err("missing labels")
    ELSE Ok([change |-> "Delete",
             metadata |-> [reference |-> ElementReference(source_id, mqtt_change.id),
                           labels |-> mqtt_change.labels.v,
                           effective_from |-> UnwrapOr(mqtt_change.timestamp, now)]])

\* a conversion that stamps every change with the clock
convert_mqtt_to_source_change_clock(mqtt_change, source_id, now) ==
    IF mqtt_change.operation \in {"insert", "update"}
    THEN LET element == create_element_from_mqtt(mqtt_change.element, source_id, now)
         IN  IF ~element.ok THEN element
             ELSE Ok([change |-> IF mqtt_change.operation = "insert"
                                 THEN "Insert" ELSE "Update",
                      element |-> element.v])
    ELSE Ok([change |-> "Delete",
             metadata |-> [reference |-> ElementReference(source_id, mqtt_change.id),
                           labels |-> UnwrapOr(mqtt_change.labels, <<>>),
                           effective_from |-> now]])

\* now is the reading of SystemTime::now(), in milliseconds
convert_mqtt_to_source_change(mqtt_change, source_id, now) ==
    IF mqtt_change.operation \in {"insert", "update"}
    THEN LET element == create_element_from_mqtt(mqtt_change.element, source_id,
                                                 UnwrapOr(mqtt_change.timestamp, now))
         IN  IF ~element.ok THEN element
             ELSE Ok([change |-> IF mqtt_change.operation = "insert"
                                 THEN "Insert" ELSE "Update",
                      element |-> element.v])
    ELSE Ok([change |-> "Delete",
             metadata |-> [reference |-> ElementReference(source_id, mqtt_change.id),
                           labels |-> UnwrapOr(mqtt_change.labels, <<>>),
                           effective_from |-> UnwrapOr(mqtt_change.timestamp, now)]])

(***************************************************************************)
(* Inputs: the payloads a broker may publish, the events the event loop    *)
(* may yield, the readings of the clock.                                   *)
(***************************************************************************)
\* {"operation":"insert","element":{"type":"node","id":"n1",
\*  "labels":["Sensor"],"properties":{"val":42}}}
P_InsertNode ==
    Utf8(Text(JObj(<<
        Member("operation", JStr("insert")),
        Member("element", JObj(<<
            Member("type", JStr("node")),
            Member("id", JStr("n1")),
            Member("labels", JArr(<<JStr("Sensor")>>)),
            Member("properties", JObj(<<Member("val", JNum("PosInt", 42))>>))>>))>>)))

\* {"operation":"update","element":{"type":"relation","id":"r1",
\*  "labels":["Feeds"],"from":"n1","to":"n2"},"timestamp":7}
P_UpdateRelation ==
    Utf8(Text(JObj(<<
        Member("operation", JStr("update")),
        Member("element", JObj(<<
            Member("type", JStr("relation")),
            Member("id", JStr("r1")),
            Member("labels", JArr(<<JStr("Feeds")>>)),
            Member("from", JStr("n1")),
            Member("to", JStr("n2"))>>)),
        Member("timestamp", JNum("PosInt", 7))>>)))

\* {"operation":"delete","id":"n1","timestamp":5}
P_Delete ==
    Utf8(Text(JObj(<<
        Member("operation", JStr("delete")),
        Member("id", JStr("n1")),
        Member("timestamp", JNum("PosInt", 5))>>)))

\* {"operation":"upsert","id":"n1"}: an unknown operation tag
P_UnknownOperation ==
    Utf8(Text(JObj(<<
        Member("operation", JStr("upsert")),
        Member("id", JStr("n1"))>>)))

\* {"operation":"insert"}: the required field element is missing
P_MissingField ==
    Utf8(Text(JObj(<<Member("operation", JStr("insert"))>>)))

\* {"operation":"insert","element":{"type":"no : truncated JSON
P_Truncated == Utf8(Malformed)

\* an insert whose property is a number that is neither an i64 nor an f64
P_BadNumber ==
    Utf8(Text(JObj(<<
        Member("operation", JStr("insert")),
        Member("element", JObj(<<
            Member("type", JStr("node")),
            Member("id", JStr("n2")),
            Member("labels", JArr(<<>>)),
            Member("properties", JObj(<<Member("val", JNum("Raw", 0))>>))>>))>>)))

Payloads ==
    {P_InsertNode, P_UpdateRelation, P_Delete, P_UnknownOperation,
     P_MissingField, P_Truncated, P_BadNumber}

Decodes(p) == map_json_to_mqtt_source_change(from_utf8_lossy(p)).ok

Decoded(p) == map_json_to_mqtt_source_change(from_utf8_lossy(p)).v

\* rumqttc::Event, as EventLoop::poll yields it
Publish(p) == [kind |-> "Publish", payload |-> p]

IncomingOther == [kind |-> "Incoming"]

Outgoing == [kind |-> "Outgoing"]

PollResults ==
    {Ok(Publish(p)) : p \in Payloads} \cup {Ok(IncomingOther), Ok(Outgoing)}
        \cup {Err("ConnectionError")}

\* the reading of the clock, in milliseconds
Clock == {100}

(***************************************************************************)
(* config.rs: MQTTSourceConfig::new, and lib.rs: MQTTSourceBuilder.        *)
(* <<"a">> stands for a name without whitespace ("localhost", "topic").    *)
(***************************************************************************)
default_host == <<"a">>

default_port == 1883

default_topic == <<"a">>

MQTTSourceConfig_new ==
    [host |-> default_host, port |-> default_port, topic |-> default_topic,
     username |-> None, password |-> None, qos |-> default_qos,
     channel_capacity |-> default_channel_capacity,
     timeout_ms |-> default_timeout_ms]

MQTTSourceBuilder_new(id) ==
    [id |-> id, host |-> <<>>, port |-> 9001, topic |-> <<>>, qos |-> None,
     username |-> None, password |-> None, channel_capacity |-> None,
     timeout_ms |-> None]

\* MQTTSourceBuilder::with_config
with_config(b, config) ==
    [b EXCEPT !.host = config.host, !.port = config.port, !.topic = config.topic,
              !.username = config.username, !.password = config.password,
              !.qos = Some(config.qos)]

\* MQTTSourceBuilder::build: the configuration of the MQTTSource
build(b) ==
    [host |-> b.host, port |-> b.port, topic |-> b.topic,
     username |-> b.username, password |-> b.password,
     qos |-> UnwrapOr(b.qos, default_qos),
     channel_capacity |-> UnwrapOr(b.channel_capacity, default_channel_capacity),
     timeout_ms |-> UnwrapOr(b.timeout_ms, default_timeout_ms)]

\* MQTTSource::new and MQTTSource::with_dispatch
MQTTSource_new(id, config) == [id |-> id, config |-> config]

(***************************************************************************)
(* The state.                                                              *)
(***************************************************************************)
VARIABLES
    builder,            \* Option<MQTTSourceBuilder>: the builder, until build(self)
    source,             \* Option<MQTTSource>: the adapter (its id and config)
    status,             \* the ComponentStatus kept by MQTTSource.base
    component_events,   \* the component events sent to the framework
    call,               \* the start() calls: where each is, the event it
                        \* holds, its result
    session,            \* the MQTTConnectionWrapper of each start() call
    delivered,          \* the publishes EventLoop::poll has yielded to each call
    created,            \* the SourceChangeEvents each call has constructed
    dispatched,         \* the SourceChangeEvents each call has handed to the
                        \* dispatchers of MQTTSource.base
    logged,             \* the conversion failures reported with error!
    polled,             \* the number of results the event loops have yielded
    stop_call,          \* the stop() calls: where each is
    verdict             \* the result of the last validate() call

vars ==
    <<builder, source, status, component_events, call, session, delivered,
      created, dispatched, logged, polled, stop_call, verdict>>

Starts == 1..MaxStarts

Stops == 1..MaxStops

\* connection.rs: let source_id = "mqtt-source"
SOURCE_ID == "mqtt-source"

\* the ids given to MQTTSource::builder and MQTTSource::new
Ids == {"mqtt-source", "plant-7"}

Idle == [pc |-> "idle", event |-> None, result |-> None]

InLoop(i) == call[i].pc \in {"poll", "match"}

InitRuntime ==
    /\ status = "Stopped"
    /\ component_events = <<>>
    /\ call = [i \in Starts |-> Idle]
    /\ session = [i \in Starts |-> "none"]
    /\ delivered = [i \in Starts |-> <<>>]
    /\ created = [i \in Starts |-> <<>>]
    /\ dispatched = [i \in Starts |-> <<>>]
    /\ logged = <<>>
    /\ polled = 0
    /\ stop_call = [k \in Stops |-> "idle"]
    /\ verdict = None

\* an adapter made by MQTTSource::new(id, MQTTSourceConfig::new())
Init ==
    /\ builder = None
    /\ source \in {Some(MQTTSource_new(id, MQTTSourceConfig_new)) : id \in Ids}
    /\ InitRuntime

(***************************************************************************)
(* lib.rs: MQTTSource::start.  A call i goes                               *)
(*   idle -> send_event -> construct -> subscribe -> poll <-> match        *)
(* and ends in returned; each step runs to the next await of the code.     *)
(* The calls are numbered in the order the framework makes them.           *)
(***************************************************************************)
\* self.base.set_status(ComponentStatus::Starting).await
StartCall(i) ==
    /\ source.some
    /\ call[i].pc = "idle"
    /\ \A j \in 1..(i - 1) : call[j].pc # "idle"
    /\ status' = "Starting"
    /\ call' = [call EXCEPT ![i].pc = "send_event"]
    /\ UNCHANGED <<builder, source, component_events, session, delivered, created,
                   dispatched, logged, polled, stop_call, verdict>>

\* send_component_event without its ?: start() goes on when the event could
\* not be sent
StartSendEvent_Unchecked(i) ==
    /\ call[i].pc = "send_event"
    /\ \E sent \in BOOLEAN :
          /\ component_events' = IF sent THEN Append(component_events, "Starting")
                                 ELSE component_events
          /\ call' = [call EXCEPT ![i].pc = "construct"]
    /\ UNCHANGED <<builder, source, status, session, delivered, created, dispatched,
                   logged, polled, stop_call, verdict>>

\* self.base.send_component_event(ComponentStatus::Starting, ..).await?
StartSendEvent(i) ==
    /\ call[i].pc = "send_event"
    /\ \E sent \in BOOLEAN :
          IF sent
          THEN /\ component_events' = Append(component_events, "Starting")
               /\ call' = [call EXCEPT ![i].pc = "construct"]
          ELSE /\ call' = [call EXCEPT ![i].pc = "returned",
                                       ![i].result = Some(Err("send_component_event"))]
               /\ UNCHANGED component_events
    /\ UNCHANGED <<builder, source, status, session, delivered, created, dispatched,
                   logged, polled, stop_call, verdict>>

\* to_mqtt_connection_config and MQTTConnectionWrapper::new: the client and
\* the event loop of the call exist from here on
StartConstruct(i) ==
    /\ call[i].pc = "construct"
    /\ session' = [session EXCEPT ![i] = "alive"]
    /\ call' = [call EXCEPT ![i].pc = "subscribe"]
    /\ UNCHANGED <<builder, source, status, component_events, delivered, created,
                   dispatched, logged, polled, stop_call, verdict>>

\* mqtt_connection.start().await? has returned res: the rest of
\* MQTTSource::start, which drops the connection on its way out
StartReturn(i, res) ==
    /\ status' = IF res.ok THEN "Running" ELSE status
    /\ session' = [session EXCEPT ![i] = "dropped"]
    /\ call' = [call EXCEPT ![i].pc = "returned", ![i].event = None,
                            ![i].result = Some(res)]

(***************************************************************************)
(* connection.rs: MQTTConnectionWrapper::start                             *)
(***************************************************************************)
\* a subscribe that is asked again when it has failed
ConnSubscribe_Retry(i) ==
    /\ call[i].pc = "subscribe"
    /\ \E subscribed \in BOOLEAN :
          /\ call' = [call EXCEPT ![i].pc = IF subscribed THEN "poll" ELSE "subscribe",
                                  ![i].result = IF subscribed THEN None
                                                ELSE Some(Err("ClientError"))]
          /\ UNCHANGED <<status, session>>
    /\ UNCHANGED <<builder, source, component_events, delivered, created, dispatched,
                   logged, polled, stop_call, verdict>>

\* self.client.subscribe(self.topic.clone(), self.qos).await?
ConnSubscribe(i) ==
    /\ call[i].pc = "subscribe"
    /\ \E subscribed \in BOOLEAN :
          IF subscribed
          THEN /\ call' = [call EXCEPT ![i].pc = "poll"]
               /\ UNCHANGED <<status, session>>
          ELSE StartReturn(i, Err("ClientError"))
    /\ UNCHANGED <<builder, source, component_events, delivered, created, dispatched,
                   logged, polled, stop_call, verdict>>

\* a loop that polls again while the event it holds is still unprocessed
AtPoll_Eager(i) == call[i].pc \in {"poll", "match"}

\* the loop is at its poll().await only when the body of the previous
\* iteration has run to its end
AtPoll(i) == call[i].pc = "poll"

\* self.eventloop.poll().await: the loop is suspended until the event loop
\* yields its next result
ConnPoll(i) ==
    /\ AtPoll(i)
    /\ polled < MaxEvents
    /\ polled' = polled + 1
    /\ \E r \in PollResults :
          /\ call' = [call EXCEPT ![i].pc = "match", ![i].event = Some(r)]
          /\ delivered' = IF r.ok /\ r.v.kind = "Publish"
                          THEN [delivered EXCEPT ![i] = Append(@, r.v.payload)]
                          ELSE delivered
    /\ UNCHANGED <<builder, source, status, component_events, session, created,
                   dispatched, logged, stop_call, verdict>>

\* process_events returning the conversion failure instead of Ok(())
process_events_failing(source_id, event, now, at) ==
    LET source_change == convert_mqtt_to_source_change(event, source_id, now)
    IN  IF source_change.ok
        THEN [change_event |-> Some([source_id |-> source_id,
                                     change |-> source_change.v,
                                     timestamp |-> at]),
              error |-> None,
              result |-> Ok("unit")]
        ELSE [change_event |-> None,
              error |-> Some(source_change.err),
              result |-> Err(source_change.err)]

\* process_events: what it constructs, what it logs, what it returns.  now and
\* at are the readings of SystemTime::now() and chrono::Utc::now()
process_events(source_id, event, now, at) ==
    LET source_change == convert_mqtt_to_source_change(event, source_id, now)
    IN  IF source_change.ok
        THEN [change_event |-> Some([source_id |-> source_id,
                                     change |-> source_change.v,
                                     timestamp |-> at]),
              error |-> None,
              result |-> Ok("unit")]
        ELSE [change_event |-> None,
              error |-> Some(source_change.err),
              result |-> Ok("unit")]

\* the SourceChangeEvents of a call, in the order they were constructed
Constructed(events, change_event) ==
    IF change_event.some THEN Append(events, change_event.v) ELSE events

\* Incoming::Publish(publish): decode, then process_events, each with ?
OnPublish(i, payload, now, at) ==
    LET event == map_json_to_mqtt_source_change(from_utf8_lossy(payload))
        done  == process_events(SOURCE_ID, event.v, now, at)
    IN  IF ~event.ok
        THEN /\ StartReturn(i, Err(event.err))
             /\ UNCHANGED <<created, logged>>
        ELSE /\ created' = [created EXCEPT ![i] = Constructed(@, done.change_event)]
             /\ logged' = IF done.error.some
                          THEN Append(logged, [call |-> i, error |-> done.error.v])
                          ELSE logged
             /\ IF done.result.ok
                THEN /\ call' = [call EXCEPT ![i].pc = "poll", ![i].event = None]
                     /\ UNCHANGED <<status, session>>
                ELSE StartReturn(i, done.result)

\* a loop that goes on polling after a transport error
OnPollError_Retry(i, e) ==
    /\ call' = [call EXCEPT ![i].pc = "poll", ![i].event = None]
    /\ UNCHANGED <<status, session>>

\* let event = self.eventloop.poll().await? where poll yielded Err(e)
OnPollError(i, e) == StartReturn(i, Err(e))

\* a loop that ends when the event is not a publish
OnOtherEvent_Fatal(i) ==
    /\ StartReturn(i, Err("unexpected event"))
    /\ UNCHANGED <<created, logged>>

\* the arms _ => {} of Event::Incoming and Event::Outgoing: the event is
\* printed and the body of the loop ends
OnOtherEvent(i) ==
    /\ call' = [call EXCEPT ![i].pc = "poll", ![i].event = None]
    /\ UNCHANGED <<status, session, created, logged>>

\* the ? on the result of poll, and the match on the event
ConnMatch(i) ==
    /\ call[i].pc = "match"
    /\ LET r == call[i].event.v
       IN  IF ~r.ok
           THEN /\ OnPollError(i, r.err)
                /\ UNCHANGED <<created, logged>>
           ELSE IF r.v.kind = "Publish"
           THEN \E now \in Clock, at \in Clock :
                   /\ now <= at
                   /\ OnPublish(i, r.v.payload, now, at)
           ELSE OnOtherEvent(i)
    /\ UNCHANGED <<builder, source, component_events, delivered, dispatched, polled,
                   stop_call, verdict>>

(***************************************************************************)
(* lib.rs: MQTTSource::stop                                                *)
(***************************************************************************)
\* self.base.set_status(ComponentStatus::Stopping).await
StopCall(k) ==
    /\ source.some
    /\ stop_call[k] = "idle"
    /\ \A j \in 1..(k - 1) : stop_call[j] # "idle"
    /\ status' = "Stopping"
    /\ stop_call' = [stop_call EXCEPT ![k] = "stopping"]
    /\ UNCHANGED <<builder, source, component_events, call, session, delivered,
                   created, dispatched, logged, polled, verdict>>

\* self.base.set_status(ComponentStatus::Stopped).await; Ok(())
StopFinish(k) ==
    /\ stop_call[k] = "stopping"
    /\ status' = "Stopped"
    /\ stop_call' = [stop_call EXCEPT ![k] = "returned"]
    /\ UNCHANGED <<builder, source, component_events, call, session, delivered,
                   created, dispatched, logged, polled, verdict>>

(***************************************************************************)
(* lib.rs: MQTTSourceBuilder.  Every setter takes the builder and gives it *)
(* back with one field set; build(self) consumes it.                       *)
(***************************************************************************)
HostInputs == {<<"a">>, <<" ">>}

PortInputs == {0, 1883}

TopicInputs == {<<"a">>}

QosInputs == {"AtLeastOnce"}

UsernameInputs == {"user"}

PasswordInputs == {"secret"}

CapacityInputs == {7}

TimeoutInputs == {0, 250}

ConfigInputs ==
    {MQTTSourceConfig_new,
     [MQTTSourceConfig_new EXCEPT !.topic = <<>>, !.username = Some("user"),
                                  !.qos = "AtMostOnce", !.channel_capacity = 7,
                                  !.timeout_ms = 250]}

Set(b) ==
    /\ builder.some
    /\ builder' = Some(b)
    /\ UNCHANGED <<source, status, component_events, call, session, delivered,
                   created, dispatched, logged, polled, stop_call, verdict>>

WithHost(host) == Set([builder.v EXCEPT !.host = host])

WithPort(port) == Set([builder.v EXCEPT !.port = port])

WithTopic(topic) == Set([builder.v EXCEPT !.topic = topic])

WithQos(qos) == Set([builder.v EXCEPT !.qos = Some(qos)])

WithUsername(username) == Set([builder.v EXCEPT !.username = Some(username)])

WithPassword(password) == Set([builder.v EXCEPT !.password = Some(password)])

WithChannelCapacity(capacity) ==
    Set([builder.v EXCEPT !.channel_capacity = Some(capacity)])

WithTimeoutMs(timeout_ms) == Set([builder.v EXCEPT !.timeout_ms = Some(timeout_ms)])

WithConfig(config) == Set(with_config(builder.v, config))

\* build(self): MQTTSource::with_dispatch, whose SourceBase::new(..)? may fail
Build ==
    /\ builder.some
    /\ builder' = None
    /\ \E made \in BOOLEAN :
          source' = IF made THEN Some(MQTTSource_new(builder.v.id, build(builder.v)))
                    ELSE None
    /\ UNCHANGED <<status, component_events, call, session, delivered, created,
                   dispatched, logged, polled, stop_call, verdict>>

(***************************************************************************)
(* config.rs: a call of MQTTSourceConfig::validate on the configuration    *)
(***************************************************************************)
Validate ==
    /\ source.some
    /\ verdict' = Some(validate(source.v.config))
    /\ UNCHANGED <<builder, source, status, component_events, call, session,
                   delivered, created, dispatched, logged, polled, stop_call>>

(***************************************************************************)
(* The adapter at run time: start() and stop() calls on an MQTTSource.     *)
(***************************************************************************)
Next ==
    \/ \E i \in Starts : StartCall(i)
    \/ \E i \in Starts : StartSendEvent(i)
    \/ \E i \in Starts : StartConstruct(i)
    \/ \E i \in Starts : ConnSubscribe(i)
    \/ \E i \in Starts : ConnPoll(i)
    \/ \E i \in Starts : ConnMatch(i)
    \/ \E k \in Stops : StopCall(k)
    \/ \E k \in Stops : StopFinish(k)

Spec == Init /\ [][Next]_vars

\* The runtime runs every task that can run: a start() or stop() call that is
\* not waiting for the broker takes its next step.  Nothing makes the
\* framework call, nor the broker deliver.
Fairness ==
    /\ \A i \in Starts : WF_vars(StartSendEvent(i))
    /\ \A i \in Starts : WF_vars(StartConstruct(i))
    /\ \A i \in Starts : WF_vars(ConnSubscribe(i))
    /\ \A i \in Starts : WF_vars(ConnMatch(i))
    /\ \A k \in Stops : WF_vars(StopFinish(k))

FairSpec == Init /\ [][Next]_vars /\ Fairness

(***************************************************************************)
(* From MQTTSource::builder(id) to the construction of the session.        *)
(***************************************************************************)
InitBuilder ==
    /\ builder \in {Some(MQTTSourceBuilder_new(id)) : id \in Ids}
    /\ source = None
    /\ InitRuntime

NextBuilder ==
    \/ \E host \in HostInputs : WithHost(host)
    \/ \E port \in PortInputs : WithPort(port)
    \/ \E topic \in TopicInputs : WithTopic(topic)
    \/ \E qos \in QosInputs : WithQos(qos)
    \/ \E username \in UsernameInputs : WithUsername(username)
    \/ \E password \in PasswordInputs : WithPassword(password)
    \/ \E capacity \in CapacityInputs : WithChannelCapacity(capacity)
    \/ \E timeout_ms \in TimeoutInputs : WithTimeoutMs(timeout_ms)
    \/ \E config \in ConfigInputs : WithConfig(config)
    \/ Build
    \/ \E i \in Starts : StartCall(i)
    \/ \E i \in Starts : StartSendEvent(i)
    \/ \E i \in Starts : StartConstruct(i)
    \/ \E i \in Starts : ConnSubscribe(i)

SpecBuilder == InitBuilder /\ [][NextBuilder]_vars

(***************************************************************************)
(* validate() on the configurations of the bounded strings and numbers.    *)
(***************************************************************************)
Ports == {0, 1, 1883, 65535}

Timeouts == {0, 1, 5000}

ValidateConfigs ==
    {[MQTTSourceConfig_new EXCEPT !.host = h, !.port = p, !.topic = t, !.timeout_ms = ms] :
        h \in Strs, p \in Ports, t \in Strs, ms \in Timeouts}

InitValidate ==
    /\ builder = None
    /\ source \in {Some(MQTTSource_new("plant-7", c)) : c \in ValidateConfigs}
    /\ InitRuntime

NextValidate == Validate

SpecValidate == InitValidate /\ [][NextValidate]_vars

(***************************************************************************)
(* What the properties below speak of.                                     *)
(***************************************************************************)
Returned(i) == call[i].pc = "returned"

\* the call holds a publish it has not yet decoded and processed
HoldsPublish(i) ==
    /\ call[i].pc = "match"
    /\ call[i].event.v.ok
    /\ call[i].event.v.v.kind = "Publish"

HeldPublish(i) == call[i].event.v.v.payload

\* the call holds a transport error poll has yielded
HoldsPollError(i) == call[i].pc = "match" /\ ~call[i].event.v.ok

Front(seq) == SubSeq(seq, 1, Len(seq) - 1)

\* the publishes delivered to the call that it has finished with
Processed(i) == IF HoldsPublish(i) THEN Front(delivered[i]) ELSE delivered[i]

Converts(p) ==
    Decodes(p) /\ \E now \in Clock :
                     convert_mqtt_to_source_change(Decoded(p), SOURCE_ID, now).ok

FailsConversion(p) == Decodes(p) /\ ~Converts(p)

\* the call has returned the error e
ReturnedErr(i, e) ==
    Returned(i) /\ ~call[i].result.v.ok /\ call[i].result.v.err = e

DecodeError(p) == map_json_to_mqtt_source_change(from_utf8_lossy(p)).err

OnlyCall(i) ==
    /\ \A j \in Starts \ {i} : call[j].pc = "idle"
    /\ \A k \in Stops : stop_call[k] = "idle"

(***************************************************************************)
(* C1: a publish whose payload fails decoding never terminates the receive *)
(* loop: no start() call returns the decode error of a publish that was    *)
(* delivered to it.                                                        *)
(***************************************************************************)
C1_DecodeFailureNeverEndsLoop ==
    \A i \in Starts : \A n \in 1..Len(delivered[i]) :
        ~Decodes(delivered[i][n]) => ~ReturnedErr(i, DecodeError(delivered[i][n]))

(***************************************************************************)
(* C2: every publish that decodes and converts is handed to the downstream *)
(* dispatchers exactly once: the events a call has handed off are the      *)
(* events it has constructed, one per converted publish it has processed.  *)
(***************************************************************************)
C2_EveryConvertedHandedOff ==
    \A i \in Starts :
        /\ Len(created[i]) = Len(SelectSeq(Processed(i), Converts))
        /\ dispatched[i] = created[i]

(***************************************************************************)
(* C3: once subscribe has succeeded and the receive loop is entered, the   *)
(* status becomes Running, in every execution without a transport error,   *)
(* an end of the loop, a stop request or another start request.            *)
(***************************************************************************)
C3_RunningOnceReceiving ==
    \A i \in Starts :
        (call[i].pc = "poll") ~> (status = "Running" \/ Returned(i) \/ ~OnlyCall(i))

(***************************************************************************)
(* C4: a stop request issued while the receive loop is active interrupts   *)
(* it: once that stop() has returned, the loop eventually terminates.      *)
(***************************************************************************)
C4_StopInterruptsLoop ==
    \A i \in Starts : \A k \in Stops :
        [](InLoop(i) /\ stop_call[k] = "idle"
             => [](stop_call[k] = "returned" => <>Returned(i)))

(***************************************************************************)
(* C5: when the receive loop has ended with a transport error, the status  *)
(* is no longer Starting or Running and the failure was reported to the    *)
(* framework (no other call being in progress).                            *)
(***************************************************************************)
C5_TransportErrorLeavesFailed ==
    \A i \in Starts :
        ReturnedErr(i, "ConnectionError") /\ OnlyCall(i)
            => /\ status \notin {"Starting", "Running"}
               /\ \E n \in 1..Len(component_events) : component_events[n] # "Starting"

(***************************************************************************)
(* C6: a transport error yielded by poll ends the loop at once and is the  *)
(* error start() returns, the session being dropped; a call that has       *)
(* returned polls no more, receives and processes no publish and keeps no  *)
(* session (no reconnect, no retry).                                       *)
(***************************************************************************)
C6_TransportErrorEndsLoop ==
    [][\A i \in Starts :
          /\ HoldsPollError(i) /\ call'[i] # call[i]
                => /\ call'[i].pc = "returned"
                   /\ call'[i].result = Some(Err(call[i].event.v.err))
                   /\ session'[i] = "dropped"
                   /\ created'[i] = created[i]
          /\ Returned(i)
                => /\ call'[i] = call[i]
                   /\ session'[i] = session[i]
                   /\ delivered'[i] = delivered[i]
                   /\ created'[i] = created[i]]_vars

C6_Witness ==
    \E i \in Starts :
        /\ ReturnedErr(i, "ConnectionError")
        /\ session[i] = "dropped"
        /\ Len(created[i]) = 1

(***************************************************************************)
(* C7: a conversion failure is per-message and non-fatal: the step that    *)
(* processes a decoded publish which does not convert logs one failure,    *)
(* constructs no SourceChangeEvent and goes back to poll.                  *)
(***************************************************************************)
C7_ConversionFailureSkipped ==
    [][\A i \in Starts :
          HoldsPublish(i) /\ FailsConversion(HeldPublish(i)) /\ call'[i] # call[i]
             => /\ call'[i].pc = "poll"
                /\ created'[i] = created[i]
                /\ logged' = Append(logged, [call |-> i, error |-> "Unsupported number type"])
                /\ session'[i] = "alive"]_vars

C7_Witness ==
    \E i \in Starts :
        /\ Len(delivered[i]) = 2
        /\ FailsConversion(delivered[i][1])
        /\ Len(logged) = 1
        /\ Len(created[i]) = 1
        /\ call[i].pc = "poll"

(***************************************************************************)
(* C8: no broker session is ever constructed from parameters for which     *)
(* validate() fails.                                                       *)
(***************************************************************************)
C8_SessionOnlyFromValidParameters ==
    \A i \in Starts : session[i] # "none" => validate(source.v.config) = "Ok"

(***************************************************************************)
(* C9: validate() names the first violated constraint in the order host,   *)
(* port, topic, timeout, and succeeds when none is violated.               *)
(***************************************************************************)
FirstViolated(c, hostBad, topicBad) ==
    IF hostBad THEN "host cannot be empty"
    ELSE IF c.port = 0 THEN "port cannot be 0"
    ELSE IF topicBad THEN "topic cannot be empty"
    ELSE IF c.timeout_ms = 0 THEN "timeout_ms cannot be 0"
    ELSE "Ok"

\* as claimed: a host or topic is bad when it is the empty string
C9_ValidateEmpty ==
    verdict.some =>
        verdict.v = FirstViolated(source.v.config,
                                  Len(source.v.config.host) = 0,
                                  Len(source.v.config.topic) = 0)

IsBlank(str) == \A n \in 1..Len(str) : str[n] = " "

\* C9, amended: a host or topic is bad when it has no character other than
\* whitespace
C9_ValidateBlank ==
    verdict.some =>
        verdict.v = FirstViolated(source.v.config,
                                  IsBlank(source.v.config.host),
                                  IsBlank(source.v.config.topic))

C9_Witness ==
    /\ verdict = Some("host cannot be empty")
    /\ source.v.config.host = <<" ", " ">>
    /\ source.v.config.port = 0
    /\ source.v.config.timeout_ms = 0

(***************************************************************************)
(* C10: publishes are processed one at a time, in the order of delivery:   *)
(* the changes a call has constructed are, in order, the conversions of    *)
(* the convertible publishes delivered to it, the one it still holds       *)
(* excepted (it holds none while it waits in poll).                        *)
(***************************************************************************)
C10_InDeliveryOrder ==
    \A i \in Starts :
        LET converted == SelectSeq(Processed(i), Converts)
        IN  /\ Len(created[i]) = Len(converted)
            /\ \A n \in 1..Len(converted) :
                  \E now \in Clock :
                     created[i][n].change =
                        convert_mqtt_to_source_change(Decoded(converted[n]),
                                                      SOURCE_ID, now).v

C10_Witness ==
    \E i \in Starts :
        /\ call[i].pc = "poll"
        /\ delivered[i] = <<P_UpdateRelation, P_Delete>>
        /\ Len(created[i]) = 2

(***************************************************************************)
(* Several start() calls on one MQTTSource: start takes &self, so the      *)
(* framework may make a second call while the first one is in its loop.    *)
(***************************************************************************)
MaxCalls == 2           \* start() calls that may be in progress together

Calls == 1..MaxCalls

InitCalls ==
    /\ builder = None
    /\ source \in {Some(MQTTSource_new(id, MQTTSourceConfig_new)) : id \in Ids}
    /\ status = "Stopped"
    /\ component_events = <<>>
    /\ call = [i \in Calls |-> Idle]
    /\ session = [i \in Calls |-> "none"]
    /\ delivered = [i \in Calls |-> <<>>]
    /\ created = [i \in Calls |-> <<>>]
    /\ dispatched = [i \in Calls |-> <<>>]
    /\ logged = <<>>
    /\ polled = 0
    /\ stop_call = [k \in Stops |-> "idle"]
    /\ verdict = None

NextCalls ==
    \/ \E i \in Calls : StartCall(i)
    \/ \E i \in Calls : StartSendEvent(i)
    \/ \E i \in Calls : StartConstruct(i)
    \/ \E i \in Calls : ConnSubscribe(i)
    \/ \E i \in Calls : ConnPoll(i)
    \/ \E i \in Calls : ConnMatch(i)
    \/ \E k \in Stops : StopCall(k)
    \/ \E k \in Stops : StopFinish(k)

SpecCalls == InitCalls /\ [][NextCalls]_vars

(***************************************************************************)
(* C11: an adapter owns one client connection and one event stream: at     *)
(* most one broker session of the MQTTSource is alive at any time.         *)
(***************************************************************************)
C11_OneSessionAlive ==
    Cardinality({i \in DOMAIN session : session[i] = "alive"}) <= 1

(***************************************************************************)
(* C12: the status only follows the edges Stopped -> Starting -> Running   *)
(* -> Stopping -> Stopped; a stop() call sets Stopping when it begins and  *)
(* Stopped when it returns.  The edges are looked at from the first        *)
(* start request on: a stop() on an adapter that was never started is left *)
(* out.                                                                    *)
(***************************************************************************)
LifecycleEdges ==
    {<<"Stopped", "Starting">>, <<"Starting", "Running">>,
     <<"Running", "Stopping">>, <<"Stopping", "Stopped">>}

Started == \E i \in DOMAIN call : call[i].pc # "idle"

C12_StatusFollowsEdges ==
    [][/\ Started /\ status' # status => <<status, status'>> \in LifecycleEdges
       /\ \A k \in Stops :
             /\ stop_call[k] = "idle" /\ stop_call'[k] # "idle"
                   => stop_call'[k] = "stopping" /\ status' = "Stopping"
             /\ stop_call[k] = "stopping" /\ stop_call'[k] # "stopping"
                   => stop_call'[k] = "returned" /\ status' = "Stopped"]_vars

(***************************************************************************)
(* C13: a start request sets the status to Starting and reports the        *)
(* Starting event before the session is constructed: a call leaves its     *)
(* beginning with the status Starting and no session, reports the event    *)
(* while it still has no session, and a session comes to exist only in a   *)
(* call that has reported; if the event cannot be sent the call returns    *)
(* that error and never has a session.                                     *)
(***************************************************************************)
C13_StartingReportedBeforeSession ==
    /\ [][\A i \in Starts :
            /\ call[i].pc = "idle" /\ call'[i] # call[i]
                  => /\ status' = "Starting"
                     /\ call'[i].pc = "send_event"
                     /\ session'[i] = "none"
            /\ call[i].pc = "send_event" /\ call'[i] # call[i]
                  => /\ session'[i] = "none"
                     /\ \/ /\ component_events' = Append(component_events, "Starting")
                           /\ call'[i].pc = "construct"
                        \/ /\ component_events' = component_events
                           /\ call'[i].pc = "returned"
                           /\ call'[i].result = Some(Err("send_component_event"))
            /\ session[i] = "none" /\ session'[i] # "none"
                  => /\ call[i].pc = "construct"
                     /\ session'[i] = "alive"]_vars
    /\ [](\A i \in Starts :
            ReturnedErr(i, "send_component_event") => session[i] = "none")

C13_Witness ==
    \E i \in Starts :
        /\ call[i].pc = "subscribe"
        /\ session[i] = "alive"
        /\ status = "Starting"
        /\ component_events = <<"Starting">>

(***************************************************************************)
(* C14: a failed subscribe is fatal to the session: the step that takes    *)
(* the answer of subscribe either enters the loop or returns the subscribe *)
(* error from start(), the session being dropped; a call takes an event    *)
(* from its event loop only once it is in the loop; a call that has        *)
(* returned the subscribe error has received and processed nothing, and    *)
(* stays returned (the subscribe is not asked again).                      *)
(***************************************************************************)
C14_SubscribeFailureIsFatal ==
    /\ [][\A i \in Starts :
            /\ call[i].pc = "subscribe" /\ call'[i] # call[i]
                  => \/ call'[i].pc = "poll" /\ session'[i] = "alive"
                     \/ /\ call'[i].pc = "returned"
                        /\ call'[i].result = Some(Err("ClientError"))
                        /\ session'[i] = "dropped"
            /\ call'[i].pc = "match" /\ call'[i] # call[i] => call[i].pc = "poll"
            /\ ReturnedErr(i, "ClientError") => call'[i] = call[i]]_vars
    /\ [](\A i \in Starts :
            ReturnedErr(i, "ClientError")
               => delivered[i] = <<>> /\ created[i] = <<>> /\ session[i] = "dropped")

C14_Witness ==
    \E i \in Starts :
        /\ ReturnedErr(i, "ClientError")
        /\ session[i] = "dropped"
        /\ polled = 0

(***************************************************************************)
(* C15: an event that is not a publish leaves the session unchanged: when  *)
(* poll yields it nothing but the position of the call and the count of    *)
(* polls changes, and the step that handles it puts the call back at poll, *)
(* as it was before the event, with no SourceChangeEvent, no log entry, no *)
(* result, the session alive and the status untouched.                     *)
(***************************************************************************)
HoldsOtherEvent(c) ==
    c.pc = "match" /\ c.event.v.ok /\ c.event.v.v.kind # "Publish"

C15_OtherEventsChangeNothing ==
    [][\A i \in Starts :
          /\ call[i].pc = "poll" /\ HoldsOtherEvent(call'[i])
                => /\ call'[i].result = call[i].result
                   /\ UNCHANGED <<status, component_events, session, delivered,
                                  created, dispatched, logged>>
          /\ HoldsOtherEvent(call[i]) /\ call'[i] # call[i]
                => /\ call'[i] = [pc |-> "poll", event |-> None, result |-> None]
                   /\ UNCHANGED <<status, component_events, session, delivered,
                                  created, dispatched, logged, polled>>]_vars

C15_Witness ==
    \E i \in Starts :
        /\ call[i] = [pc |-> "poll", event |-> None, result |-> None]
        /\ polled = 2
        /\ Len(delivered[i]) = 1
        /\ Len(created[i]) = 1
        /\ session[i] = "alive"

(***************************************************************************)
(* C16: the source id is owned by the adapter: every SourceChangeEvent a   *)
(* start() call of the adapter constructs, and every element reference in  *)
(* it, carries the id of the MQTTSource.                                   *)
(***************************************************************************)
\* the element references of a SourceChange
References(change) ==
    IF change.change = "Delete" THEN {change.metadata.reference}
    ELSE IF change.element.kind = "Node" THEN {change.element.metadata.reference}
    ELSE {change.element.metadata.reference, change.element.in_node,
          change.element.out_node}

C16_ChangesCarryAdapterId ==
    \A i \in Starts : \A n \in 1..Len(created[i]) :
        /\ created[i][n].source_id = source.v.id
        /\ \A ref \in References(created[i][n].change) : ref.source_id = source.v.id

(***************************************************************************)
(* The decoder and the mapper on the payloads of the wire schema.  The     *)
(* loop of a start() call holds a publish that poll has just yielded, and  *)
(* decodes, converts and processes it.                                     *)
(***************************************************************************)
\* a member of a JSON object that may be absent
Opt(k, o) == IF o.some THEN <<Member(k, o.v)>> ELSE <<>>

\* the JSON values of a property: 200 is an integer above I64_MAX, 15 and 20
\* are the floats 1.5 and 2.0
PropertyValues ==
    {JNull, JBool(TRUE), JStr("x"),
     JNum("PosInt", 42), JNum("PosInt", 200), JNum("NegInt", -3),
     JNum("Float", 15), JNum("Float", 20), JNum("Raw", 0),
     JArr(<<>>), JObj(<<>>),
     JArr(<<JBool(TRUE), JNull, JStr("x")>>),
     JObj(<<Member("a", JNum("PosInt", 1)),
            Member("b", JArr(<<JBool(TRUE), JNull, JStr("x")>>))>>),
     JArr(<<JNum("PosInt", 1), JObj(<<Member("c", JNum("Raw", 0))>>)>>)}

PropertiesFields ==
    {None} \cup {Some(JObj(<<Member("val", v)>>)) : v \in PropertyValues}

TimestampFields == {None, Some(JNull), Some(JNum("PosInt", 7)), Some(JNum("PosInt", 200))}

LabelsFields == {None, Some(JNull), Some(JArr(<<>>)), Some(JArr(<<JStr("Sensor")>>))}

ElementJson(type, properties) ==
    JObj(<<Member("type", JStr(type)),
           Member("id", JStr("e1")),
           Member("labels", JArr(<<JStr("Sensor")>>))>>
         \o (IF type = "relation"
             THEN <<Member("from", JStr("n1")), Member("to", JStr("n2"))>>
             ELSE <<>>)
         \o Opt("properties", properties))

\* {"operation":op,"element":{..},"timestamp":..}
ElementPayloads ==
    {Utf8(Text(JObj(<<Member("operation", JStr(op)),
                      Member("element", ElementJson(type, properties))>>
                    \o Opt("timestamp", timestamp)))) :
        op \in {"insert", "update"}, type \in {"node", "relation"},
        properties \in PropertiesFields, timestamp \in TimestampFields}

\* {"operation":"delete","id":"n1","labels":..,"timestamp":..}
DeletePayloads ==
    {Utf8(Text(JObj(<<Member("operation", JStr("delete")),
                      Member("id", JStr("n1"))>>
                    \o Opt("labels", labels) \o Opt("timestamp", timestamp)))) :
        labels \in LabelsFields, timestamp \in TimestampFields}

\* {"operation":"delete","id":"n<FF>"}: the byte FF is not valid UTF-8; it
\* stands inside a JSON string, where U+FFFD is a character like any other
P_InvalidInString ==
    NotUtf8(Text(JObj(<<Member("operation", JStr("delete")),
                        Member("id", JStr("n?"))>>)))

\* <FF>{"operation":"delete","id":"n1"}: U+FFFD outside a string is not JSON
P_InvalidOutsideString == NotUtf8(Malformed)

MapperPayloads ==
    Payloads \cup ElementPayloads \cup DeletePayloads
        \cup {P_InvalidInString, P_InvalidOutsideString}

\* the first start() call is in its loop and poll has yielded a publish
InitMapper ==
    /\ builder = None
    /\ source \in {Some(MQTTSource_new(id, MQTTSourceConfig_new)) : id \in Ids}
    /\ status = "Starting"
    /\ component_events = <<"Starting">>
    /\ \E p \in MapperPayloads :
          /\ call = [i \in Starts |->
                        IF i = 1
                        THEN [pc |-> "match", event |-> Some(Ok(Publish(p))),
                              result |-> None]
                        ELSE Idle]
          /\ delivered = [i \in Starts |-> IF i = 1 THEN <<p>> ELSE <<>>]
    /\ session = [i \in Starts |-> IF i = 1 THEN "alive" ELSE "none"]
    /\ created = [i \in Starts |-> <<>>]
    /\ dispatched = [i \in Starts |-> <<>>]
    /\ logged = <<>>
    /\ polled = 1
    /\ stop_call = [k \in Stops |-> "idle"]
    /\ verdict = None

NextMapper == \E i \in Starts : ConnMatch(i)

SpecMapper == InitMapper /\ [][NextMapper]_vars

(***************************************************************************)
(* C17: decode never yields a change operation from bytes that are not     *)
(* valid UTF-8, nor from malformed JSON, an unknown operation tag or a     *)
(* missing required field: a call that has finished with such a publish    *)
(* has returned an error and has constructed no SourceChangeEvent from it. *)
(***************************************************************************)
MustFailDecoding(p) ==
    ~p.utf8 \/ p \in {P_Truncated, P_UnknownOperation, P_MissingField}

C17_InvalidBytesNeverDecode ==
    \A i \in Starts : \A n \in 1..Len(Processed(i)) :
        MustFailDecoding(Processed(i)[n])
            => /\ Returned(i)
               /\ ~call[i].result.v.ok
               /\ Len(created[i]) < n

(***************************************************************************)
(* C18: value conversion is exhaustive and structure-preserving.           *)
(* Mirrors(j, e, reading) says that the ElementValue e is the JSON value j *)
(* shape for shape: null, bool and string as they are, a list of the same  *)
(* length in the same order, an object with the same keys, and a number as *)
(* an Integer when it counts as an integer under the reading, as a Float   *)
(* (in tenths) otherwise.                                                  *)
(***************************************************************************)
\* the number is written without fraction or exponent
WrittenAsInteger(j) == j.repr \in {"PosInt", "NegInt"}

\* "integer": the number is an integer, however large and however written
\* (2.0 is one); "i64": it is written as an integer and lies within i64
CountsAsInteger(j, reading) ==
    IF reading = "integer"
    THEN WrittenAsInteger(j) \/ j.n % 10 = 0
    ELSE WrittenAsInteger(j) /\ j.n <= I64_MAX

IntegerOf(j) == IF WrittenAsInteger(j) THEN j.n ELSE j.n \div 10

TenthsOf(j) == IF WrittenAsInteger(j) THEN 10 * j.n ELSE j.n

RECURSIVE Standard(_)
\* no number in j is one that is neither an i64, a u64 nor an f64
Standard(j) ==
    CASE j.t = "num" -> j.repr # "Raw"
      [] j.t = "arr" -> \A k \in 1..Len(j.a) : Standard(j.a[k])
      [] j.t = "obj" -> \A k \in 1..Len(j.m) : Standard(j.m[k].v)
      [] OTHER -> TRUE

RECURSIVE Mirrors(_, _, _)
Mirrors(j, e, reading) ==
    CASE j.t = "null" -> e.t = "Null"
      [] j.t = "bool" -> e.t = "Bool" /\ e.b = j.b
      [] j.t = "str"  -> e.t = "String" /\ e.s = j.s
      [] j.t = "num"  ->
            IF CountsAsInteger(j, reading)
            THEN e.t = "Integer" /\ e.n = IntegerOf(j)
            ELSE e.t = "Float" /\ e.n = TenthsOf(j)
      [] j.t = "arr"  ->
            /\ e.t = "List"
            /\ Len(e.a) = Len(j.a)
            /\ \A k \in 1..Len(j.a) : Mirrors(j.a[k], e.a[k], reading)
      [] j.t = "obj"  ->
            /\ e.t = "Object"
            /\ Len(e.m) = Len(j.m)
            /\ \A k \in 1..Len(j.m) :
                  e.m[k].k = j.m[k].k /\ Mirrors(j.m[k].v, e.m[k].v, reading)

\* the publish carries an element, whose properties are converted
HasElement(p) == Decodes(p) /\ Decoded(p).operation \in {"insert", "update"}

PropertiesOf(p) == JObj(Decoded(p).element.properties)

ConvertedProperties(event) == [t |-> "Object", m |-> event.change.element.properties]

\* every property map of a processed publish converts, unless it holds a
\* number that is none of i64, u64, f64 and expectRaw says that this one fails;
\* the properties of the events constructed mirror those of the publishes
ValuesConverted(reading, expectRaw) ==
    \A i \in Starts :
        LET converted == SelectSeq(Processed(i), Converts)
        IN  /\ \A n \in 1..Len(Processed(i)) :
                  HasElement(Processed(i)[n])
                     => IF Standard(PropertiesOf(Processed(i)[n]))
                        THEN Converts(Processed(i)[n])
                        ELSE expectRaw => ~Converts(Processed(i)[n])
            /\ \A n \in 1..Len(converted) :
                  HasElement(converted[n])
                     => /\ n <= Len(created[i])
                        /\ Mirrors(PropertiesOf(converted[n]),
                                   ConvertedProperties(created[i][n]), reading)

\* as claimed: a number becomes an Integer exactly when it is an integer
C18_IntegerWhenInteger == ValuesConverted("integer", FALSE)

\* C18, amended: a number becomes an Integer exactly when it is written as
\* an integer and lies within i64, a Float otherwise (an integer above
\* i64::MAX and 2.0 are Floats), and a value holding a number that is neither
\* fails to convert
C18_IntegerWhenI64 == ValuesConverted("i64", TRUE)

C18_Witness ==
    \E i \in Starts :
        /\ call[i].pc = "poll"
        /\ Len(created[i]) = 1
        /\ HasElement(delivered[i][1])
        /\ PropertiesOf(delivered[i][1]) = JObj(<<Member("val", JNum("PosInt", 200))>>)
        /\ created[i][1].change.element.properties
              = <<Member("val", [t |-> "Float", n |-> 2000])>>

(***************************************************************************)
(* C19: a Delete with no labels field converts, to a Delete change with an *)
(* empty label set and the given id, and with no property map: every such  *)
(* publish a call has processed converts, and the event constructed from   *)
(* it holds nothing but that metadata.                                     *)
(***************************************************************************)
\* the JSON object of a payload that decodes
WireObject(p) == from_utf8_lossy(p).json.m

DeleteWithoutLabels(p) ==
    /\ Decodes(p)
    /\ Decoded(p).operation = "delete"
    /\ ~HasKey(WireObject(p), "labels")

C19_DeleteWithoutLabels ==
    \A i \in Starts :
        LET converted == SelectSeq(Processed(i), Converts)
        IN  /\ \A n \in 1..Len(Processed(i)) :
                  DeleteWithoutLabels(Processed(i)[n]) => Converts(Processed(i)[n])
            /\ \A n \in 1..Len(converted) :
                  DeleteWithoutLabels(converted[n])
                     => /\ n <= Len(created[i])
                        /\ DOMAIN created[i][n].change = {"change", "metadata"}
                        /\ created[i][n].change.change = "Delete"
                        /\ created[i][n].change.metadata.labels = <<>>
                        /\ created[i][n].change.metadata.reference.element_id
                              = Get(WireObject(converted[n]), "id").s
                        /\ DOMAIN created[i][n].change.metadata
                              = {"reference", "labels", "effective_from"}

C19_Witness ==
    \E i \in Starts :
        /\ call[i].pc = "poll"
        /\ logged = <<>>
        /\ DeleteWithoutLabels(delivered[i][1])
        /\ Len(created[i]) = 1
        /\ created[i][1].change =
              [change |-> "Delete",
               metadata |-> [reference |-> ElementReference(SOURCE_ID, "n1"),
                             labels |-> <<>>,
                             effective_from |-> 100]]

(***************************************************************************)
(* C20: the effective_from of a change is the explicit timestamp of the    *)
(* operation, exactly, whatever the clock reads; it is the reading of the  *)
(* clock only when the operation carries no timestamp.                     *)
(***************************************************************************)
ExplicitTimestamp(p) ==
    HasKey(WireObject(p), "timestamp") /\ Get(WireObject(p), "timestamp").t # "null"

EffectiveFrom(change) ==
    IF change.change = "Delete" THEN change.metadata.effective_from
    ELSE change.element.metadata.effective_from

\* the readings of the model and others the clock might have given
Readings == Clock \cup {t + 1 : t \in Clock}

C20_ExplicitTimestampKept ==
    \A i \in Starts :
        LET converted == SelectSeq(Processed(i), Converts)
        IN  \A n \in 1..Len(converted) :
               /\ n <= Len(created[i])
               /\ IF ExplicitTimestamp(converted[n])
                  THEN /\ EffectiveFrom(created[i][n].change)
                             = Get(WireObject(converted[n]), "timestamp").n
                       /\ \A now \in Readings :
                             convert_mqtt_to_source_change(Decoded(converted[n]),
                                                           SOURCE_ID, now).v
                                = created[i][n].change
                  ELSE EffectiveFrom(created[i][n].change) \in Clock

C20_Witness ==
    \E i \in Starts :
        /\ call[i].pc = "poll"
        /\ Len(created[i]) = 1
        /\ Decoded(delivered[i][1]).operation = "update"
        /\ ExplicitTimestamp(delivered[i][1])
        /\ Get(WireObject(delivered[i][1]), "timestamp") = JNum("PosInt", 200)
        /\ EffectiveFrom(created[i][1].change) = 200
        /\ created[i][1].timestamp = 100

(***************************************************************************)
(* model.rs: the derived Serialize of MQTTSourceChange and MQTTElement.    *)
(* The tag comes first, then the fields in the order of the variant; an    *)
(* Option field that is None is skipped (skip_serializing_if).             *)
(***************************************************************************)
JStrArr(strs) == JArr([n \in 1..Len(strs) |-> JStr(strs[n])])

\* #[serde(skip_serializing_if = "Option::is_none")]
SkipNone(k, o, json) == IF o.some THEN <<Member(k, json)>> ELSE <<>>

SerializeElement(e) ==
    JObj(<<Member("type", JStr(e.type)),
           Member("id", JStr(e.id)),
           Member("labels", JStrArr(e.labels))>>
         \o (IF e.type = "relation"
             THEN <<Member("from", JStr(e.from)), Member("to", JStr(e.to))>>
             ELSE <<>>)
         \o <<Member("properties", JObj(e.properties))>>)

SerializeChange(c) ==
    IF c.operation = "delete"
    THEN JObj(<<Member("operation", JStr("delete")),
                Member("id", JStr(c.id))>>
              \o SkipNone("labels", c.labels, JStrArr(UnwrapOr(c.labels, <<>>)))
              \o SkipNone("timestamp", c.timestamp,
                          JNum("PosInt", UnwrapOr(c.timestamp, 0))))
    ELSE JObj(<<Member("operation", JStr(c.operation)),
                Member("element", SerializeElement(c.element))>>
              \o SkipNone("timestamp", c.timestamp,
                          JNum("PosInt", UnwrapOr(c.timestamp, 0))))

\* serde_json::to_string of a change, as the bytes of a payload
Encode(c) == Utf8(Text(SerializeChange(c)))

(***************************************************************************)
(* The MQTTSourceChange values a publisher may encode.                     *)
(***************************************************************************)
PropertyMaps == {<<>>} \cup {<<Member("val", v)>> : v \in PropertyValues}

LabelSets == {<<>>, <<"Sensor">>}

Timestamps == {None, Some(7), Some(200)}

Nodes ==
    {[type |-> "node", id |-> "e1", labels |-> labels, properties |-> properties] :
        labels \in LabelSets, properties \in PropertyMaps}

Relations ==
    {[type |-> "relation", id |-> "e1", labels |-> labels, from |-> "n1", to |-> "n2",
      properties |-> properties] :
        labels \in LabelSets, properties \in PropertyMaps}

ChangeOperations ==
    {[operation |-> op, element |-> element, timestamp |-> timestamp] :
        op \in {"insert", "update"}, element \in Nodes \cup Relations,
        timestamp \in Timestamps}
    \cup
    {[operation |-> "delete", id |-> "n1", labels |-> labels, timestamp |-> timestamp] :
        labels \in {None} \cup {Some(l) : l \in LabelSets}, timestamp \in Timestamps}

EncodedPayloads == {Encode(c) : c \in ChangeOperations}

\* the first start() call is in its loop and poll has yielded a publish that
\* a publisher has encoded
InitRoundTrip ==
    /\ builder = None
    /\ source \in {Some(MQTTSource_new(id, MQTTSourceConfig_new)) : id \in Ids}
    /\ status = "Starting"
    /\ component_events = <<"Starting">>
    /\ \E p \in EncodedPayloads :
          /\ call = [i \in Starts |->
                        IF i = 1
                        THEN [pc |-> "match", event |-> Some(Ok(Publish(p))),
                              result |-> None]
                        ELSE Idle]
          /\ delivered = [i \in Starts |-> IF i = 1 THEN <<p>> ELSE <<>>]
    /\ session = [i \in Starts |-> IF i = 1 THEN "alive" ELSE "none"]
    /\ created = [i \in Starts |-> <<>>]
    /\ dispatched = [i \in Starts |-> <<>>]
    /\ logged = <<>>
    /\ polled = 1
    /\ stop_call = [k \in Stops |-> "idle"]
    /\ verdict = None

NextRoundTrip == \E i \in Starts : ConnMatch(i)

SpecRoundTrip == InitRoundTrip /\ [][NextRoundTrip]_vars

C22_WithConfigThenBuild ==
    [][\A c \in ConfigInputs :
          /\ builder.some
          /\ builder.v = with_config(MQTTSourceBuilder_new(builder.v.id), c)
          /\ source'.some
          => source'.v.config = c]_vars

(***************************************************************************)
(* C23: for a relation the wire field from becomes the out_node and the    *)
(* wire field to becomes the in_node of the converted relation, each a     *)
(* reference under the source id of the relation's own reference: the      *)
(* event constructed from a publish that carries a relation is a Relation  *)
(* with exactly these two endpoints.                                       *)
(***************************************************************************)
CarriesRelation(p) == HasElement(p) /\ Decoded(p).element.type = "relation"

C23_RelationEndpoints ==
    \A i \in Starts :
        LET converted == SelectSeq(Processed(i), Converts)
        IN  \A n \in 1..Len(converted) :
               CarriesRelation(converted[n])
                  => /\ n <= Len(created[i])
                     /\ LET wire == Get(WireObject(converted[n]), "element").m
                            relation == created[i][n].change.element
                            own == relation.metadata.reference.source_id
                        IN  /\ relation.kind = "Relation"
                            /\ relation.out_node
                                  = ElementReference(own, Get(wire, "from").s)
                            /\ relation.in_node
                                  = ElementReference(own, Get(wire, "to").s)

C23_Witness ==
    \E i \in Starts :
        /\ call[i].pc = "poll"
        /\ Len(created[i]) = 1
        /\ CarriesRelation(delivered[i][1])
        /\ created[i][1].change.change = "Insert"
        /\ created[i][1].change.element.out_node = ElementReference(SOURCE_ID, "n1")
        /\ created[i][1].change.element.in_node = ElementReference(SOURCE_ID, "n2")

====
